---- MODULE Spec2Model ----
(***************************************************************************)
(* PointerWars: the level-1 and level-2 singly linked lists, the FIFO      *)
(* queue built on the level-2 list, and the bump-pointer allocator.        *)
(*                                                                         *)
(* Memory is modelled explicitly.  Node storage is a small heap of cells   *)
(* addressed 1..MaxNodes; address 0 is the null pointer.  A cell handed    *)
(* out by the registered allocation function holds indeterminate bytes     *)
(* until the code writes them, so a field the code never writes takes any  *)
(* pointer value.  Dereferencing the null pointer, or a pointer to a cell  *)
(* that is not live, ends the run in status "segv" or "ub".                *)
(***************************************************************************)
EXTENDS Integers, Sequences, FiniteSets, TLC

\* ---------------------------------------------------------------- bounds
MaxNodes == 3
MaxData == 2
MaxPushes == 4
MaxSlabs == 3
MaxAllocs == 4
MaxDestroys == 2
MatrixDim == 4
MaxEdges == 3
MaxRow == 33
MaxQueries == 2
MaxSec == 1

\* ------------------------------------------------------------- constants
NULL == 0
SIZE_MAX == 2147483647
DEFAULT_ALLOC_SIZE_BYTES == 4096
DEFAULT_NUM_SLABS == 512
ADJ_BLOCK == 16
NUM_QUERIES == 100
NSEC_PER_SEC == 1000000000

Addrs == 1..MaxNodes
Data == 1..MaxData
Indexes == 0..(MaxNodes + 1)
\* what an uninitialised pointer field may hold
Indeterminate == {NULL} \cup Addrs

FreeCell == [data |-> 0, next |-> NULL, live |-> FALSE]
\* no list header allocated: every pointer to the list is NULL
NoList == [alloc |-> FALSE, head |-> NULL, tail |-> NULL, size |-> 0]
\* no iterator allocated
NoIter == [alloc |-> FALSE, current_index |-> 0, current_node |-> NULL,
           data |-> 0]

\* the function pointers of a module before any registration
\* noop: the free function registered is custom_free, which releases nothing
Unregistered == [malloc |-> FALSE, free |-> FALSE, noop |-> FALSE]
Registered == [malloc |-> TRUE, free |-> TRUE, noop |-> FALSE]
\* main's registrations: instrumented_malloc and custom_free
RegisteredByMain == [malloc |-> TRUE, free |-> TRUE, noop |-> TRUE]

\* the harness: node numbers are 0..m for an m x m matrix
Nodes == 0..MatrixDim
\* rows[i] == NULL: no struct row allocated for node i
\* cap: the slots of the block adjacent_nodes points to; reallocs: how many
\* times add_edge has called realloc for the row
NoRow == [alloc |-> FALSE, size |-> 0, adjacent_nodes |-> <<>>, cap |-> 0,
          visited |-> FALSE, reallocs |-> 0]
\* tail: what follows the last edge record: "none", "space" (white space, a
\* final newline) or "junk" (text that is no number)
NoFile == [edges |-> <<>>, tail |-> "none"]
\* marked: how many rows the search before the last reset had marked
\* a struct timespec
NoTime == [tv_sec |-> 0, tv_nsec |-> 0]
NoProg == [pc |-> "none", pos |-> 0, eof |-> FALSE, line_count |-> 0,
           query |-> 0, code |-> 0, marked |-> 0, total_time |-> NoTime]
NoSearch == [pc |-> "none", i |-> 0, j |-> 0, next_node |-> 0,
             node_count |-> 0, found_path |-> FALSE, node |-> 0,
             alarm |-> FALSE, ret |-> FALSE, oom |-> FALSE,
             malloc_invocations |-> 0, free_invocations |-> 0,
             malloc_calls |-> 0, free_calls |-> 0,
             start |-> NoTime, stop |-> NoTime, nanoseconds |-> 0]

VARIABLES
  level,    \* which linked_list implementation is linked in: 1 or 2
  nodes,    \* the node heap: [Addrs -> [data, next, live]]
  list,     \* struct linked_list: [alloc, head, tail, size]; the pointer
            \* to it is NULL exactly when alloc is FALSE
  status,   \* "running", or how the process ended
  iter,     \* struct iterator: [alloc, current_index, current_node, data]
  last,     \* the call made last: its name, arguments and what it returned
  ref,      \* the reference sequence the same inserts and removes produce
  queue,    \* struct queue: [alloc]; queue->ll is the list header
  out,      \* the caller's popped_data variable
  pushed,   \* the values the successful queue_push calls were given
  popped,   \* the values the successful queue_pop calls wrote
  allocator,\* struct bump_ptr_allocator
  blocks,   \* the start addresses of the live blocks of the system heap
  regions,  \* the regions bump_ptr_allocator_malloc returned since init
  destroys, \* how many times bump_ptr_allocator_destroy has run
  reg,      \* linked_list.c's malloc_fptr and free_fptr: set or NULL
  qreg,     \* queue.c's malloc_fptr and free_fptr: set or NULL
  rows,     \* the harness's adjacency structure: struct row ** rows
  file,     \* the edge records of the matrix file, and what follows them
  prog,     \* main: where it is, the file position, the query number
  bfs       \* the locals of breadth_first_search and the call counters

vars == <<level, nodes, list, status, iter, last, ref,
          queue, out, pushed, popped,
          allocator, blocks, regions, destroys,
          reg, qreg, rows, file, prog, bfs>>
queueVars == <<queue, out, pushed, popped>>
allocVars == <<allocator, blocks, regions, destroys>>
listVars == <<level, nodes, list, iter, ref>>
regVars == <<reg, qreg>>
harnessVars == <<rows, file, prog, bfs>>

\* ------------------------------------------------ bump-pointer allocator
\* Addresses are byte addresses.  The system malloc places the block of a
\* request for n bytes at address n: the slabs' sizes are distinct powers of
\* two, so their blocks [n, 2n) are disjoint and aligned.
ZeroSlab == [data |-> NULL, curr |-> NULL, end |-> NULL, alloc_size |-> 0]
SlabIndexes == 0..(DEFAULT_NUM_SLABS - 1)
AllocSizes == {8, 12, DEFAULT_ALLOC_SIZE_BYTES}

\* size_t is 64 bits wide: last_alloc_size and total_mem_allocated are kept
\* as four 16-bit limbs, least significant first, so that doubling and
\* adding wrap as they do in the program
Limb == 2 ^ 16
SizeT(n) == <<n % Limb, (n \div Limb) % Limb, 0, 0>>
Plus(x, y) ==
  LET s1 == x[1] + y[1]
      s2 == x[2] + y[2] + s1 \div Limb
      s3 == x[3] + y[3] + s2 \div Limb
      s4 == x[4] + y[4] + s3 \div Limb IN
  <<s1 % Limb, s2 % Limb, s3 % Limb, s4 % Limb>>
Twice(x) == Plus(x, x)
\* the value of x when it is below 2^30
Small(x) == x[3] = 0 /\ x[4] = 0 /\ x[2] < 2 ^ 14
ToInt(x) == x[1] + Limb * x[2]
\* the largest block the system heap hands out
HeapLimit == DEFAULT_ALLOC_SIZE_BYTES * (2 ^ MaxSlabs)

\* the harness before main has run
HarnessZero ==
  /\ rows = [n \in Nodes |-> NoRow]
  /\ file = NoFile
  /\ prog = NoProg
  /\ bfs = NoSearch

\* static struct bump_ptr_allocator allocator: zero-initialised
AllocZero ==
  /\ allocator = [slabs |-> [i \in SlabIndexes |-> ZeroSlab],
                  slab_ptr |-> 0, last_alloc_size |-> SizeT(0),
                  total_mem_allocated |-> SizeT(0), initialized |-> FALSE]
  /\ blocks = {}
  /\ regions = <<>>
  /\ destroys = 0

\* the allocator's memory, what the call returned (ret, and ptr for a
\* returned address) and how the process stands
AllocWorld ==
  [a |-> allocator, blocks |-> blocks, status |-> status,
   ret |-> FALSE, ptr |-> NULL, frees |-> 0, got |-> <<>>]

\* malloc(n) of the system heap: NULL on failure, and for a request the
\* heap cannot hold.  malloc(0) returns NULL or the address of a block of
\* no bytes that no other block has: one of the addresses below the first
\* slab's.
sys_malloc(aw, n, ok) ==
  IF ~ok \/ ~Small(n) THEN NULL
  ELSE IF ToInt(n) > HeapLimit THEN NULL
  ELSE IF ToInt(n) = 0
  THEN LET free == {8 * k : k \in 1..DEFAULT_NUM_SLABS} \ aw.blocks IN
       CHOOSE a \in free : \A b \in free : a <= b
  ELSE ToInt(n)

\* free(p) of the system heap
sys_free(aw, p) ==
  IF p = NULL THEN aw
  ELSE IF p \notin aw.blocks THEN [aw EXCEPT !.status = "ub"]
  ELSE [aw EXCEPT !.blocks = @ \ {p}]

align_to(ptr, alignment) ==
  ((ptr + alignment - 1) \div alignment) * alignment

\* slab_init(&allocator->slabs[k], alloc_size)
slab_init(aw, k, alloc_size, ok) ==
  LET data == sys_malloc(aw, alloc_size, ok) IN
  IF data = NULL
  THEN [aw EXCEPT !.a.slabs[k].data = NULL, !.ret = FALSE]
  ELSE [aw EXCEPT !.a.slabs[k] = [data |-> data, curr |-> data,
                                  end |-> data + ToInt(alloc_size),
                                  alloc_size |-> ToInt(alloc_size)],
                  !.blocks = @ \cup {data},
                  !.ret = TRUE]

\* slab_destroy(slab), the fields: data keeps the released address
slab_destroy(slab) ==
  [slab EXCEPT !.curr = NULL, !.end = NULL, !.alloc_size = 0]

\* slab_malloc(&allocator->slabs[k], size): ptr is NULL on failure
slab_malloc(aw, k, size) ==
  LET alignment == 8
      new_alloc == align_to(aw.a.slabs[k].curr, alignment)
      new_alloc_end == new_alloc + size IN
  IF new_alloc_end > aw.a.slabs[k].end THEN [aw EXCEPT !.ptr = NULL]
  ELSE [aw EXCEPT !.a.slabs[k].curr = new_alloc_end, !.ptr = new_alloc]

\* init that starts over instead of ending the process
bump_ptr_allocator_init_again(aw, ok) ==
  LET aw1 == [aw EXCEPT !.a.initialized = TRUE,
                        !.a.slab_ptr = 0,
                        !.a.last_alloc_size = SizeT(DEFAULT_ALLOC_SIZE_BYTES),
                        !.a.total_mem_allocated =
                           SizeT(DEFAULT_ALLOC_SIZE_BYTES)]
  IN slab_init(aw1, 0, SizeT(DEFAULT_ALLOC_SIZE_BYTES), ok)

bump_ptr_allocator_init(aw, ok) ==
  IF aw.a.initialized THEN [aw EXCEPT !.status = "exit", !.ret = FALSE]
  ELSE
    LET aw1 == [aw EXCEPT !.a.initialized = TRUE,
                          !.a.slab_ptr = 0,
                          !.a.last_alloc_size =
                             SizeT(DEFAULT_ALLOC_SIZE_BYTES),
                          !.a.total_mem_allocated =
                             SizeT(DEFAULT_ALLOC_SIZE_BYTES)]
    IN slab_init(aw1, aw1.a.slab_ptr, aw1.a.last_alloc_size, ok)

\* for (int i = 0; i < DEFAULT_NUM_SLABS; i++) slab_destroy(&slabs[i]);
\* every slot's data goes to free(): releasing an address that is not a
\* live block, or the same address from two slots, is undefined
DestroySlabs(aw) ==
  LET held == {i \in SlabIndexes : aw.a.slabs[i].data # NULL}
      bad == \/ \E i \in held : aw.a.slabs[i].data \notin aw.blocks
             \/ \E i, j \in held :
                  i # j /\ aw.a.slabs[i].data = aw.a.slabs[j].data IN
  [aw EXCEPT !.a.slabs = [i \in SlabIndexes |-> slab_destroy(@[i])],
             !.blocks = @ \ {aw.a.slabs[i].data : i \in held},
             !.frees = DEFAULT_NUM_SLABS,
             !.status = IF bad THEN "ub" ELSE @]

bump_ptr_allocator_destroy(aw) ==
  LET aw1 == DestroySlabs(aw) IN
  [aw1 EXCEPT !.a.slab_ptr = 0,
              !.a.last_alloc_size = SizeT(0),
              !.a.total_mem_allocated = SizeT(0),
              !.a.initialized = FALSE,
              !.ret = TRUE]

\* malloc that ends the process when it is out of slots
bump_ptr_allocator_malloc_exit(aw, size, ok) ==
  LET aw1 == slab_malloc(aw, aw.a.slab_ptr, size) IN
  IF aw1.ptr # NULL THEN aw1
  ELSE IF aw.a.slab_ptr + 1 >= DEFAULT_NUM_SLABS
  THEN [aw1 EXCEPT !.status = "exit"]
  ELSE
    LET aw2 == [aw1 EXCEPT !.a.slab_ptr = @ + 1,
                           !.a.last_alloc_size = Twice(@),
                           !.a.total_mem_allocated =
                              Plus(@, Twice(aw1.a.last_alloc_size))]
        aw3 == slab_init(aw2, aw2.a.slab_ptr, aw2.a.last_alloc_size, ok) IN
    IF ~aw3.ret THEN [aw3 EXCEPT !.ptr = NULL]
    ELSE
      LET aw4 == slab_malloc(aw3, aw3.a.slab_ptr, size) IN
      IF aw4.ptr # NULL
      THEN [aw4 EXCEPT !.ptr = aw4.a.slabs[aw4.a.slab_ptr].curr]
      ELSE aw4

\* malloc whose new slab has the size of the one before
bump_ptr_allocator_malloc_same(aw, size, ok) ==
  LET aw1 == slab_malloc(aw, aw.a.slab_ptr, size) IN
  IF aw1.ptr # NULL THEN aw1
  ELSE IF aw.a.slab_ptr + 1 >= DEFAULT_NUM_SLABS THEN aw1
  ELSE
    LET aw2 == [aw1 EXCEPT !.a.slab_ptr = @ + 1,
                           !.a.total_mem_allocated =
                              Plus(@, aw1.a.last_alloc_size)]
        aw3 == slab_init(aw2, aw2.a.slab_ptr, aw2.a.last_alloc_size, ok) IN
    IF ~aw3.ret THEN [aw3 EXCEPT !.ptr = NULL]
    ELSE
      LET aw4 == slab_malloc(aw3, aw3.a.slab_ptr, size) IN
      IF aw4.ptr # NULL
      THEN [aw4 EXCEPT !.ptr = aw4.a.slabs[aw4.a.slab_ptr].curr]
      ELSE aw4

bump_ptr_allocator_malloc(aw, size, ok) ==
  LET aw1 == slab_malloc(aw, aw.a.slab_ptr, size) IN
  IF aw1.ptr # NULL THEN aw1
  ELSE IF aw.a.slab_ptr + 1 >= DEFAULT_NUM_SLABS THEN aw1
  ELSE
    LET aw2 == [aw1 EXCEPT !.a.slab_ptr = @ + 1,
                           !.a.last_alloc_size = Twice(@),
                           !.a.total_mem_allocated =
                              Plus(@, Twice(aw1.a.last_alloc_size))]
        aw3 == slab_init(aw2, aw2.a.slab_ptr, aw2.a.last_alloc_size, ok) IN
    IF ~aw3.ret THEN [aw3 EXCEPT !.ptr = NULL]
    ELSE
      LET aw4 == slab_malloc(aw3, aw3.a.slab_ptr, size) IN
      IF aw4.ptr # NULL
      THEN [aw4 EXCEPT !.ptr = aw4.a.slabs[aw4.a.slab_ptr].curr]
      ELSE aw4

\* ----------------------------------------------------------- the "world"
\* The memory an operation works on, with what it returned and how many
\* times it called the registered allocation and free functions.
World ==
  [nodes |-> nodes, list |-> list, iter |-> iter, status |-> status,
   queue |-> queue, out |-> out, reg |-> reg, qreg |-> qreg,
   ret |-> FALSE, mallocs |-> 0, frees |-> 0, got |-> <<>>]

IsLive(w, p) == p \in Addrs /\ w.nodes[p].live

\* a dereference of p that is not a live cell
DerefFault(w, p) == [w EXCEPT !.status = IF p = NULL THEN "segv" ELSE "ub",
                              !.ret = FALSE]

Return(w, r) == [w EXCEPT !.ret = r]

\* a call through a function pointer that is still NULL
CallNull(w) == [w EXCEPT !.status = "segv", !.ret = FALSE]

FreeAddrs(w) == {a \in Addrs : ~w.nodes[a].live}

\* malloc_fptr(sizeof(struct node)) returning p (NULL on failure); the new
\* cell's next field holds junk until written.
malloc_node(w, p, junk) ==
  IF ~w.reg.malloc THEN CallNull(w)
  ELSE IF p = NULL
  THEN [w EXCEPT !.mallocs = @ + 1, !.got = Append(@, FALSE)]
  ELSE [w EXCEPT !.mallocs = @ + 1, !.got = Append(@, TRUE),
                 !.nodes[p] = [data |-> 0, next |-> junk, live |-> TRUE]]

\* free_fptr(p)
free_node(w, p) ==
  IF ~w.reg.free THEN CallNull(w)
  ELSE IF p = NULL \/ w.reg.noop THEN [w EXCEPT !.frees = @ + 1]
  ELSE IF ~IsLive(w, p) THEN [w EXCEPT !.frees = @ + 1, !.status = "ub"]
  ELSE [w EXCEPT !.frees = @ + 1, !.nodes[p] = FreeCell]

linked_list_size(w) == IF ~w.list.alloc THEN SIZE_MAX ELSE w.list.size

\* ------------------------------------------------- level 2 (head + tail)
\* while (i-- > 0) curr = curr->next;
RECURSIVE WalkNext(_, _, _)
WalkNext(w, curr, i) ==
  IF i = 0 THEN [ok |-> TRUE, p |-> curr]
  ELSE IF ~IsLive(w, curr) THEN [ok |-> FALSE, p |-> curr]
  ELSE WalkNext(w, w.nodes[curr].next, i - 1)

\* _linked_list_init_iterator: the walk, then iter->data = curr->data
linked_list_init_iterator(w, index) ==
  LET r == WalkNext(w, w.list.head, index) IN
  IF r.ok /\ IsLive(w, r.p)
  THEN [ok |-> TRUE, current_index |-> index, current_node |-> r.p,
        data |-> w.nodes[r.p].data]
  ELSE [ok |-> FALSE, current_index |-> index, current_node |-> r.p,
        data |-> 0]

linked_list_create_L2(w, ok) ==
  IF ~w.reg.malloc THEN CallNull(w)
  ELSE IF ok
  THEN [w EXCEPT !.mallocs = @ + 1, !.got = Append(@, TRUE), !.ret = TRUE,
                 !.list = [alloc |-> TRUE, head |-> NULL, tail |-> NULL,
                           size |-> 0]]
  ELSE [w EXCEPT !.mallocs = @ + 1, !.got = Append(@, FALSE),
                 !.ret = FALSE]

linked_list_insert_L2(w, index, data, p, junk) ==
  LET ll_size == linked_list_size(w) IN
  IF ~w.list.alloc \/ ll_size < index THEN Return(w, FALSE)
  ELSE
    LET w1 == malloc_node(w, p, junk) IN
    IF p = NULL THEN DerefFault(w1, p)          \* new_node->data = data
    ELSE
      LET w2 == [w1 EXCEPT !.nodes[p].data = data] IN
      IF index = 0 THEN
        Return([w2 EXCEPT !.nodes[p].next = w2.list.head,
                          !.list.head = p,
                          !.list.tail = IF ll_size = 0 THEN p ELSE @,
                          !.list.size = @ + 1], TRUE)
      ELSE IF index = ll_size THEN
        \* ll->tail->next = new_node; ll->tail = new_node;
        \* new_node->next is not written on this path
        IF ~IsLive(w2, w2.list.tail) THEN DerefFault(w2, w2.list.tail)
        ELSE Return([w2 EXCEPT !.nodes[w2.list.tail].next = p,
                               !.list.tail = p,
                               !.list.size = @ + 1], TRUE)
      ELSE
        LET it == linked_list_init_iterator(w2, index - 1)
            prev == it.current_node IN
        IF ~it.ok THEN DerefFault(w2, prev)
        ELSE Return([w2 EXCEPT !.nodes[p].next = w2.nodes[prev].next,
                               !.nodes[prev].next = p,
                               !.list.size = @ + 1], TRUE)

linked_list_remove_L2(w, index) ==
  IF ~w.list.alloc \/ linked_list_size(w) <= index THEN Return(w, FALSE)
  ELSE IF index = 0 THEN
    LET to_remove == w.list.head IN
    IF ~IsLive(w, to_remove) THEN DerefFault(w, to_remove)
    ELSE
      LET w1 == [w EXCEPT !.list.head = w.nodes[to_remove].next]
          w2 == free_node(w1, to_remove) IN
      Return([w2 EXCEPT !.list.size = @ - 1], TRUE)
  ELSE
    LET it == linked_list_init_iterator(w, index - 1)
        prev == it.current_node IN
    IF ~it.ok THEN DerefFault(w, prev)
    ELSE
      LET to_remove == w.nodes[prev].next IN
      IF ~IsLive(w, to_remove) THEN DerefFault(w, to_remove)
      ELSE
        LET w1 == [w EXCEPT !.nodes[prev].next = w.nodes[to_remove].next,
                            !.list.tail = IF @ = to_remove THEN prev ELSE @]
            w2 == free_node(w1, to_remove) IN
        Return([w2 EXCEPT !.list.size = @ - 1], TRUE)

\* ------------------------------------------------- level 1 (head only)
\* the walk stopping one node early (loop test index-- > 1)
RECURSIVE WalkPrev_short(_, _, _, _)
WalkPrev_short(w, prev, curr, i) ==
  IF i <= 1 THEN [ok |-> TRUE, prev |-> prev, curr |-> curr]
  ELSE IF ~IsLive(w, curr) THEN [ok |-> FALSE, prev |-> prev, curr |-> curr]
  ELSE WalkPrev_short(w, curr, w.nodes[curr].next, i - 1)

\* while (index-- != 0) { prev = curr; curr = curr->next; }
RECURSIVE WalkPrev(_, _, _, _)
WalkPrev(w, prev, curr, i) ==
  IF i = 0 THEN [ok |-> TRUE, prev |-> prev, curr |-> curr]
  ELSE IF ~IsLive(w, curr) THEN [ok |-> FALSE, prev |-> prev, curr |-> curr]
  ELSE WalkPrev(w, curr, w.nodes[curr].next, i - 1)

linked_list_create_L1(w, ok) ==
  IF ~w.reg.malloc \/ ~w.reg.free THEN Return(w, FALSE)
  ELSE IF ok
  THEN [w EXCEPT !.mallocs = @ + 1, !.got = Append(@, TRUE), !.ret = TRUE,
                 !.list = [alloc |-> TRUE, head |-> NULL, tail |-> NULL,
                           size |-> 0]]
  ELSE [w EXCEPT !.mallocs = @ + 1, !.got = Append(@, FALSE),
                 !.ret = FALSE]

linked_list_insert_L1(w, index, data, p, junk) ==
  IF ~w.list.alloc \/ linked_list_size(w) < index THEN Return(w, FALSE)
  ELSE
    LET r == WalkPrev(w, NULL, w.list.head, index) IN
    IF ~r.ok THEN DerefFault(w, r.curr)
    ELSE
      LET w1 == malloc_node(w, p, junk) IN
      IF p = NULL THEN DerefFault(w1, p)        \* new_node->data = data
      ELSE
        LET w2 == [w1 EXCEPT !.nodes[p].data = data,
                             !.nodes[p].next = NULL] IN
        IF w2.list.head = NULL THEN
          Return([w2 EXCEPT !.list.head = p, !.list.size = @ + 1], TRUE)
        ELSE IF r.prev # NULL THEN
          Return([w2 EXCEPT !.nodes[p].next = w2.nodes[r.prev].next,
                            !.nodes[r.prev].next = p,
                            !.list.size = @ + 1], TRUE)
        ELSE
          Return([w2 EXCEPT !.nodes[p].next = w2.list.head,
                            !.list.head = p,
                            !.list.size = @ + 1], TRUE)

\* remove with the bounds test index > size instead of index >= size
linked_list_remove_L1_bound(w, index) ==
  IF ~w.list.alloc \/ linked_list_size(w) < index THEN Return(w, FALSE)
  ELSE IF index = 0 THEN
    LET to_remove == w.list.head IN
    IF ~IsLive(w, to_remove) THEN DerefFault(w, to_remove)
    ELSE
      LET w1 == [w EXCEPT !.list.head = w.nodes[to_remove].next]
          w2 == free_node(w1, to_remove) IN
      Return([w2 EXCEPT !.list.size = @ - 1], TRUE)
  ELSE
    LET r == WalkPrev(w, NULL, w.list.head, index) IN
    IF ~r.ok THEN DerefFault(w, r.curr)
    ELSE IF ~IsLive(w, r.curr) THEN DerefFault(w, r.curr)
    ELSE
      LET to_remove == w.nodes[r.prev].next
          w1 == [w EXCEPT !.nodes[r.prev].next = w.nodes[r.curr].next]
          w2 == free_node(w1, to_remove) IN
      Return([w2 EXCEPT !.list.size = @ - 1], TRUE)

linked_list_remove_L1(w, index) ==
  IF ~w.list.alloc \/ linked_list_size(w) <= index THEN Return(w, FALSE)
  ELSE IF index = 0 THEN
    LET to_remove == w.list.head IN
    IF ~IsLive(w, to_remove) THEN DerefFault(w, to_remove)
    ELSE
      LET w1 == [w EXCEPT !.list.head = w.nodes[to_remove].next]
          w2 == free_node(w1, to_remove) IN
      Return([w2 EXCEPT !.list.size = @ - 1], TRUE)
  ELSE
    LET r == WalkPrev(w, NULL, w.list.head, index) IN
    IF ~r.ok THEN DerefFault(w, r.curr)
    ELSE IF ~IsLive(w, r.curr) THEN DerefFault(w, r.curr)  \* curr->next
    ELSE
      LET to_remove == w.nodes[r.prev].next
          w1 == [w EXCEPT !.nodes[r.prev].next = w.nodes[r.curr].next]
          w2 == free_node(w1, to_remove) IN
      Return([w2 EXCEPT !.list.size = @ - 1], TRUE)

\* ------------------------------------------------ find (both levels)
\* while (curr != NULL) { if (curr->data == data) {result = i; break;}
\*                        curr = curr->next; i += 1; }
\* fuel counts the cells a walk can visit before it is in a cycle
RECURSIVE FindFrom(_, _, _, _, _)
FindFrom(w, curr, data, i, fuel) ==
  IF curr = NULL THEN [status |-> "running", index |-> SIZE_MAX]
  ELSE IF ~IsLive(w, curr) THEN [status |-> "ub", index |-> SIZE_MAX]
  ELSE IF w.nodes[curr].data = data THEN [status |-> "running", index |-> i]
  ELSE IF fuel = 0 THEN [status |-> "hang", index |-> SIZE_MAX]
  ELSE FindFrom(w, w.nodes[curr].next, data, i + 1, fuel - 1)

\* find counting positions from 1
linked_list_find_from1(w, data) ==
  IF ~w.list.alloc THEN [status |-> "running", index |-> SIZE_MAX]
  ELSE FindFrom(w, w.list.head, data, 1, MaxNodes)

linked_list_find(w, data) ==
  IF ~w.list.alloc THEN [status |-> "running", index |-> SIZE_MAX]
  ELSE FindFrom(w, w.list.head, data, 0, MaxNodes)

\* ----------------------------------------------------------- iterators
\* malloc_fptr(sizeof(struct iterator)) succeeded (ok) or returned NULL
linked_list_create_iterator_L2(w, index, ok) ==
  IF ~w.list.alloc \/ linked_list_size(w) <= index THEN Return(w, FALSE)
  ELSE IF ~w.reg.malloc THEN CallNull(w)
  ELSE
    LET w1 == [w EXCEPT !.mallocs = @ + 1, !.got = Append(@, ok)] IN
    IF ~ok THEN [w1 EXCEPT !.status = "abort", !.ret = FALSE]  \* assert
    ELSE
      LET it == linked_list_init_iterator(w1, index) IN
      IF ~it.ok THEN DerefFault(w1, it.current_node)
      ELSE Return([w1 EXCEPT !.iter =
                     [alloc |-> TRUE, current_index |-> index,
                      current_node |-> it.current_node, data |-> it.data]],
                  TRUE)

linked_list_create_iterator_L1(w, index, ok) ==
  IF ~w.list.alloc \/ linked_list_size(w) <= index THEN Return(w, FALSE)
  ELSE IF ~w.reg.malloc THEN CallNull(w)
  ELSE
    LET w1 == [w EXCEPT !.mallocs = @ + 1, !.got = Append(@, ok)] IN
    IF ~ok THEN DerefFault(w1, NULL)                  \* iter->ll = ll
    ELSE IF index = 0 THEN
      IF ~IsLive(w1, w1.list.head) THEN DerefFault(w1, w1.list.head)
      ELSE Return([w1 EXCEPT !.iter =
                     [alloc |-> TRUE, current_index |-> index,
                      current_node |-> w1.list.head,
                      data |-> w1.nodes[w1.list.head].data]], TRUE)
    ELSE
      LET r == WalkPrev(w1, NULL, w1.list.head, index) IN
      IF ~r.ok THEN DerefFault(w1, r.curr)
      ELSE IF ~IsLive(w1, r.prev) THEN DerefFault(w1, r.prev)
      ELSE Return([w1 EXCEPT !.iter =
                     [alloc |-> TRUE, current_index |-> index,
                      current_node |-> r.prev,
                      data |-> w1.nodes[r.prev].data]], TRUE)

linked_list_delete_iterator(w) ==
  IF ~w.iter.alloc THEN Return(w, FALSE)
  ELSE IF ~w.reg.free THEN CallNull(w)
  ELSE Return([w EXCEPT !.frees = @ + 1, !.iter = NoIter], TRUE)

\* the same text in both levels
linked_list_iterate(w) ==
  IF ~w.iter.alloc THEN Return(w, FALSE)
  ELSE
    LET cur == w.iter.current_node IN
    IF ~IsLive(w, cur) THEN DerefFault(w, cur)
    ELSE
      LET nxt == w.nodes[cur].next IN
      IF nxt = NULL THEN Return(w, FALSE)
      ELSE IF ~IsLive(w, nxt) THEN DerefFault(w, nxt)
      ELSE Return([w EXCEPT !.iter.current_node = nxt,
                            !.iter.current_index = @ + 1,
                            !.iter.data = w.nodes[nxt].data], TRUE)

\* linked_list_delete: free every node up to the NULL link, then the header
RECURSIVE FreeFrom(_, _, _)
FreeFrom(w, curr, fuel) ==
  IF curr = NULL THEN w
  ELSE IF ~IsLive(w, curr) THEN DerefFault(w, curr)
  ELSE IF fuel = 0 THEN [w EXCEPT !.status = "hang"]
  ELSE FreeFrom(free_node(w, curr), w.nodes[curr].next, fuel - 1)

linked_list_delete(w) ==
  IF ~w.list.alloc THEN Return(w, FALSE)
  ELSE
    LET w1 == FreeFrom(w, w.list.head, MaxNodes) IN
    IF w1.status # "running" THEN Return(w1, FALSE)
    ELSE IF ~w.reg.free THEN CallNull(w1)
    ELSE Return([w1 EXCEPT !.frees = @ + 1, !.list = NoList], TRUE)

\* ------------------------------------------------- reference sequence
InsertAt(s, i, x) == SubSeq(s, 1, i) \o <<x>> \o SubSeq(s, i + 1, Len(s))
RemoveAt(s, i) == SubSeq(s, 1, i) \o SubSeq(s, i + 2, Len(s))

\* ---------------------------------------------------- the list's calls
\* the calls of the registered allocation function that returned memory
Successes(got) == Cardinality({k \in 1..Len(got) : got[k]})

\* mallocs: how many calls of the registered allocation function returned
\* memory; frees: how many calls of the registered free function were made
Call(op, index, data, w) ==
  [op |-> op, index |-> index, data |-> data, ret |-> w.ret,
   frees |-> w.frees, mallocs |-> Successes(w.got)]

Commit(w) ==
  /\ nodes' = w.nodes
  /\ list' = w.list
  /\ iter' = w.iter
  /\ status' = w.status

\* a call during which the process ended did not return
Ended(w) == IF w.status = "running" THEN w ELSE [w EXCEPT !.ret = FALSE]

Create_L(w, ok) ==
  IF level = 1 THEN linked_list_create_L1(w, ok)
  ELSE linked_list_create_L2(w, ok)

Insert_L(w, index, data, p, junk) ==
  Ended(IF level = 1 THEN linked_list_insert_L1(w, index, data, p, junk)
        ELSE linked_list_insert_L2(w, index, data, p, junk))

Remove_L(w, index) ==
  Ended(IF level = 1 THEN linked_list_remove_L1(w, index)
        ELSE linked_list_remove_L2(w, index))

CreateIterator_L(w, index, ok) ==
  IF level = 1 THEN linked_list_create_iterator_L1(w, index, ok)
  ELSE linked_list_create_iterator_L2(w, index, ok)

\* linked_list_insert_end / linked_list_insert_front (both levels)
linked_list_insert_end(w, data, p, junk) ==
  IF w.list.alloc THEN Insert_L(w, linked_list_size(w), data, p, junk)
  ELSE Return(w, FALSE)

linked_list_insert_front(w, data, p, junk) == Insert_L(w, 0, data, p, junk)

ListCreate ==
  /\ status = "running" /\ ~list.alloc
  /\ \E ok \in BOOLEAN :
       LET w == Create_L(World, ok) IN
       /\ Commit(w)
       /\ last' = Call("create", 0, 0, w)
  /\ UNCHANGED <<regVars, harnessVars, allocVars, level, ref, queueVars>>

ListInsert ==
  /\ status = "running" /\ ~iter.alloc
  /\ \E index \in Indexes, data \in Data,
        p \in FreeAddrs(World) \cup {NULL}, junk \in Indeterminate :
       LET w == Insert_L(World, index, data, p, junk) IN
       /\ Commit(w)
       /\ last' = Call("insert", index, data, w)
       /\ ref' = IF w.ret THEN InsertAt(ref, index, data) ELSE ref
  /\ UNCHANGED <<regVars, harnessVars, allocVars, level, queueVars>>

ListInsertFront ==
  /\ status = "running" /\ ~iter.alloc
  /\ \E data \in Data,
        p \in FreeAddrs(World) \cup {NULL}, junk \in Indeterminate :
       LET w == linked_list_insert_front(World, data, p, junk) IN
       /\ Commit(w)
       /\ last' = Call("insert_front", 0, data, w)
       /\ ref' = IF w.ret THEN InsertAt(ref, 0, data) ELSE ref
  /\ UNCHANGED <<regVars, harnessVars, allocVars, level, queueVars>>

ListInsertEnd ==
  /\ status = "running" /\ ~iter.alloc
  /\ \E data \in Data,
        p \in FreeAddrs(World) \cup {NULL}, junk \in Indeterminate :
       LET w == linked_list_insert_end(World, data, p, junk) IN
       /\ Commit(w)
       /\ last' = Call("insert_end", list.size, data, w)
       /\ ref' = IF w.ret THEN InsertAt(ref, list.size, data) ELSE ref
  /\ UNCHANGED <<regVars, harnessVars, allocVars, level, queueVars>>

ListRemove ==
  /\ status = "running" /\ ~iter.alloc
  /\ \E index \in Indexes :
       LET w == Remove_L(World, index) IN
       /\ Commit(w)
       /\ last' = Call("remove", index, 0, w)
       /\ ref' = IF w.ret THEN RemoveAt(ref, index) ELSE ref
  /\ UNCHANGED <<regVars, harnessVars, allocVars, level, queueVars>>

ListDelete ==
  /\ status = "running" /\ ~iter.alloc
  /\ LET w == linked_list_delete(World) IN
       /\ Commit(w)
       /\ last' = Call("delete", 0, 0, w)
       /\ ref' = IF w.ret THEN <<>> ELSE ref
  /\ UNCHANGED <<regVars, harnessVars, allocVars, level, queueVars>>

ListCreateIterator ==
  /\ status = "running" /\ ~iter.alloc
  /\ \E index \in Indexes, ok \in BOOLEAN :
       LET w == CreateIterator_L(World, index, ok) IN
       /\ Commit(w)
       /\ last' = Call("create_iterator", index, 0, w)
  /\ UNCHANGED <<regVars, harnessVars, allocVars, level, ref, queueVars>>

ListIterate ==
  /\ status = "running" /\ iter.current_index <= MaxNodes
  /\ LET w == linked_list_iterate(World) IN
       /\ Commit(w)
       /\ last' = Call("iterate", 0, 0, w)
  /\ UNCHANGED <<regVars, harnessVars, allocVars, level, ref, queueVars>>

ListDeleteIterator ==
  /\ status = "running"
  /\ LET w == linked_list_delete_iterator(World) IN
       /\ Commit(w)
       /\ last' = Call("delete_iterator", 0, 0, w)
  /\ UNCHANGED <<regVars, harnessVars, allocVars, level, ref, queueVars>>

ListRegisterMalloc ==
  /\ status = "running" /\ ~reg.malloc
  /\ reg' = [reg EXCEPT !.malloc = TRUE]
  /\ last' = Call("register_malloc", 0, 0, Return(World, TRUE))
  /\ UNCHANGED <<harnessVars, allocVars, listVars, queueVars, qreg, status>>

ListRegisterFree ==
  /\ status = "running" /\ ~reg.free
  /\ reg' = [reg EXCEPT !.free = TRUE]
  /\ last' = Call("register_free", 0, 0, Return(World, TRUE))
  /\ UNCHANGED <<harnessVars, allocVars, listVars, queueVars, qreg, status>>

NoCall == [op |-> "none", index |-> 0, data |-> 0, ret |-> FALSE,
           frees |-> 0, mallocs |-> 0]

ListInit ==
  /\ level \in {1, 2}
  /\ nodes = [a \in Addrs |-> FreeCell]
  /\ list = NoList
  /\ iter = NoIter
  /\ status = "running"
  /\ last = NoCall
  /\ ref = <<>>
  /\ queue = [alloc |-> FALSE]
  /\ out = 0
  /\ pushed = <<>>
  /\ popped = <<>>
  /\ AllocZero
  /\ HarnessZero
  /\ reg = Unregistered
  /\ qreg = Unregistered

ListNext ==
  \/ ListCreate
  \/ ListInsert
  \/ ListInsertFront
  \/ ListInsertEnd
  \/ ListRemove
  \/ ListDelete
  \/ ListCreateIterator
  \/ ListIterate
  \/ ListDeleteIterator
  \/ ListRegisterMalloc
  \/ ListRegisterFree

SpecList == ListInit /\ [][ListNext]_vars

\* ---------------------------------------------------------------- queue
\* The queue is linked against the level-2 list (level = 2).
\* okq, okl: whether malloc_fptr returned memory for the queue header and
\* for the list header.
queue_create(w, okq, okl) ==
  LET w1 == [w EXCEPT !.mallocs = @ + 1, !.got = Append(@, okq)] IN
  IF ~w.qreg.malloc THEN CallNull(w)
  ELSE IF ~okq THEN Return(w1, FALSE)
  ELSE Return([Create_L(w1, okl) EXCEPT !.queue = [alloc |-> TRUE]], TRUE)

queue_delete(w) ==
  IF ~w.queue.alloc THEN Return(w, FALSE)
  ELSE
    LET w1 == linked_list_delete(w) IN
    IF w1.status # "running" THEN Return(w1, FALSE)
    ELSE IF ~w.qreg.free THEN CallNull(w1)
    ELSE Return([w1 EXCEPT !.frees = @ + 1, !.queue = [alloc |-> FALSE]],
                TRUE)

\* push at the head of the list instead of its end
queue_push_front(w, data, p, junk) ==
  IF ~w.queue.alloc THEN Return(w, FALSE)
  ELSE linked_list_insert_front(w, data, p, junk)

queue_push(w, data, p, junk) ==
  IF ~w.queue.alloc THEN Return(w, FALSE)
  ELSE linked_list_insert_end(w, data, p, junk)

queue_size(w) == IF ~w.queue.alloc THEN SIZE_MAX ELSE linked_list_size(w)

\* has_next that wants two entries
queue_has_next_two(w) == IF ~w.queue.alloc THEN FALSE ELSE queue_size(w) > 1

queue_has_next(w) == IF ~w.queue.alloc THEN FALSE ELSE queue_size(w) > 0

\* peek that takes the front node out of the list
queue_next_take(w, ok) ==
  IF ~queue_has_next(w) THEN Return(w, FALSE)
  ELSE
    LET w1 == CreateIterator_L(w, 0, ok) IN
    IF w1.status # "running" THEN w1
    ELSE IF ~w1.ret THEN Return(w1, FALSE)
    ELSE Return([Remove_L(w1, 0) EXCEPT !.out = w1.iter.data,
                                        !.iter = w.iter], TRUE)

\* ok: whether malloc_fptr returned memory for the iterator.  The iterator
\* is a local of queue_next and is not released.
queue_next(w, ok) ==
  IF ~queue_has_next(w) THEN Return(w, FALSE)
  ELSE
    LET w1 == CreateIterator_L(w, 0, ok) IN
    IF w1.status # "running" THEN w1
    ELSE IF ~w1.ret THEN Return(w1, FALSE)
    ELSE Return([w1 EXCEPT !.out = w1.iter.data, !.iter = w.iter], TRUE)

\* pop that clears the caller's variable when there is nothing to pop
queue_pop_clear(w, ok) ==
  IF ~w.queue.alloc THEN Return([w EXCEPT !.out = 0], FALSE)
  ELSE
    LET w1 == queue_next(w, ok) IN
    IF w1.status # "running" THEN w1
    ELSE IF ~w1.ret THEN Return([w1 EXCEPT !.out = 0], FALSE)
    ELSE Remove_L(w1, 0)

queue_pop(w, ok) ==
  IF ~w.queue.alloc THEN Return(w, FALSE)
  ELSE
    LET w1 == queue_next(w, ok) IN
    IF w1.status # "running" THEN w1
    ELSE IF ~w1.ret THEN Return(w1, FALSE)
    ELSE Remove_L(w1, 0)

QueueCommit(w) ==
  /\ Commit(w)
  /\ queue' = w.queue
  /\ out' = w.out

QueueCreate ==
  /\ status = "running" /\ ~queue.alloc
  /\ \E okq \in BOOLEAN, okl \in BOOLEAN :
       LET w == queue_create(World, okq, okl) IN
       /\ QueueCommit(w)
       /\ last' = Call("queue_create", 0, 0, w)
  /\ pushed' = <<>>
  /\ popped' = <<>>
  /\ UNCHANGED <<regVars, harnessVars, allocVars, level, ref>>

QueueDelete ==
  /\ status = "running"
  /\ LET w == queue_delete(World) IN
       /\ QueueCommit(w)
       /\ last' = Call("queue_delete", 0, 0, w)
  /\ UNCHANGED <<regVars, harnessVars, allocVars, level, ref, pushed, popped>>

QueuePush ==
  /\ status = "running" /\ Len(pushed) < MaxPushes
  /\ \E data \in Data,
        p \in FreeAddrs(World) \cup {NULL}, junk \in Indeterminate :
       LET w == queue_push(World, data, p, junk) IN
       /\ QueueCommit(w)
       /\ last' = Call("queue_push", 0, data, w)
       /\ pushed' = IF w.ret THEN Append(pushed, data) ELSE pushed
  /\ UNCHANGED <<regVars, harnessVars, allocVars, level, ref, popped>>

QueuePop ==
  /\ status = "running"
  /\ \E ok \in BOOLEAN :
       LET w == queue_pop(World, ok) IN
       /\ QueueCommit(w)
       /\ last' = Call("queue_pop", 0, 0, w)
       /\ popped' = IF w.ret THEN Append(popped, w.out) ELSE popped
  /\ UNCHANGED <<regVars, harnessVars, allocVars, level, ref, pushed>>

QueueNext ==
  /\ status = "running"
  /\ \E ok \in BOOLEAN :
       LET w == queue_next(World, ok) IN
       /\ QueueCommit(w)
       /\ last' = Call("queue_next", 0, 0, w)
  /\ UNCHANGED <<regVars, harnessVars, allocVars, level, ref, pushed, popped>>

QueueRegisterMalloc ==
  /\ status = "running" /\ ~qreg.malloc
  /\ qreg' = [qreg EXCEPT !.malloc = TRUE]
  /\ reg' = [reg EXCEPT !.malloc = TRUE]
  /\ last' = Call("queue_register_malloc", 0, 0, Return(World, TRUE))
  /\ UNCHANGED <<harnessVars, allocVars, listVars, queueVars, status>>

QueueRegisterFree ==
  /\ status = "running" /\ ~qreg.free
  /\ qreg' = [qreg EXCEPT !.free = TRUE]
  /\ reg' = [reg EXCEPT !.free = TRUE]
  /\ last' = Call("queue_register_free", 0, 0, Return(World, TRUE))
  /\ UNCHANGED <<harnessVars, allocVars, listVars, queueVars, status>>

QueueInit ==
  /\ level = 2
  /\ nodes = [a \in Addrs |-> FreeCell]
  /\ list = NoList
  /\ iter = NoIter
  /\ status = "running"
  /\ last = NoCall
  /\ ref = <<>>
  /\ queue = [alloc |-> FALSE]
  /\ out = 0
  /\ pushed = <<>>
  /\ popped = <<>>
  /\ AllocZero
  /\ HarnessZero
  /\ reg = Unregistered
  /\ qreg = Unregistered

QueueStep ==
  \/ QueueCreate
  \/ QueueDelete
  \/ QueuePush
  \/ QueuePop
  \/ QueueNext
  \/ QueueRegisterMalloc
  \/ QueueRegisterFree

SpecQueue == QueueInit /\ [][QueueStep]_vars

\* ------------------------------------------------ the allocator's calls
AllocCommit(aw) ==
  /\ allocator' = aw.a
  /\ blocks' = aw.blocks
  /\ status' = aw.status

AllocInit ==
  /\ status = "running"
  /\ \E ok \in BOOLEAN :
       LET aw == bump_ptr_allocator_init(AllocWorld, ok) IN
       /\ AllocCommit(aw)
       /\ last' = Call("init", 0, 0, aw)
       /\ regions' = IF aw.status = "running" THEN <<>> ELSE regions
  /\ UNCHANGED <<regVars, harnessVars, listVars, queueVars, destroys>>

AllocDestroy ==
  /\ status = "running" /\ destroys < MaxDestroys
  /\ LET aw == bump_ptr_allocator_destroy(AllocWorld) IN
       /\ AllocCommit(aw)
       /\ last' = Call("destroy", 0, 0, aw)
  /\ regions' = <<>>
  /\ destroys' = destroys + 1
  /\ UNCHANGED <<regVars, harnessVars, listVars, queueVars>>

AllocMalloc ==
  /\ status = "running" /\ allocator.initialized
  /\ allocator.slab_ptr < MaxSlabs /\ Len(regions) < MaxAllocs
  /\ \E size \in AllocSizes, ok \in BOOLEAN :
       LET aw == bump_ptr_allocator_malloc(AllocWorld, size, ok) IN
       /\ AllocCommit(aw)
       /\ last' = Call("malloc", size, aw.ptr, [aw EXCEPT !.ret = aw.ptr # NULL])
       /\ regions' = IF aw.ptr # NULL
                      THEN Append(regions,
                                  [p |-> aw.ptr, size |-> size,
                                   slab |-> aw.a.slab_ptr,
                                   grew |-> aw.a.slab_ptr # allocator.slab_ptr])
                      ELSE regions
  /\ UNCHANGED <<regVars, harnessVars, listVars, queueVars, destroys>>

AllocStart ==
  /\ level = 2
  /\ nodes = [a \in Addrs |-> FreeCell]
  /\ list = NoList
  /\ iter = NoIter
  /\ status = "running"
  /\ last = NoCall
  /\ ref = <<>>
  /\ queue = [alloc |-> FALSE]
  /\ out = 0
  /\ pushed = <<>>
  /\ popped = <<>>
  /\ AllocZero
  /\ HarnessZero
  /\ reg = Unregistered
  /\ qreg = Unregistered

AllocStep ==
  \/ AllocInit
  \/ AllocDestroy
  \/ AllocMalloc

SpecAlloc == AllocStart /\ [][AllocStep]_vars

\* ------------------------------------------ the allocator out of slots
\* The system heap gives memory for the first slab at most: every request
\* the active slab cannot serve moves on to a slot whose slab_init fails,
\* down to the last slot.  slot: the active index the call found.
ExhaustMalloc ==
  /\ status = "running" /\ allocator.initialized
  /\ \E size \in AllocSizes :
       LET aw == bump_ptr_allocator_malloc(AllocWorld, size, FALSE) IN
       /\ aw.ptr # NULL => Len(regions) < MaxAllocs
       /\ AllocCommit(aw)
       /\ last' = Call("malloc", size, aw.ptr,
                       [aw EXCEPT !.ret = aw.ptr # NULL])
                    @@ [slot |-> allocator.slab_ptr]
       /\ regions' = IF aw.ptr # NULL
                      THEN Append(regions,
                                  [p |-> aw.ptr, size |-> size,
                                   slab |-> aw.a.slab_ptr, grew |-> FALSE])
                      ELSE regions
  /\ UNCHANGED <<regVars, harnessVars, listVars, queueVars, destroys>>

ExhaustStep ==
  \/ AllocInit
  \/ ExhaustMalloc

SpecExhaust == AllocStart /\ [][ExhaustStep]_vars

\* ------------------------------------------------ the benchmark harness
\* The edge records a matrix file may hold: short files over a few edges
\* (a chain, a back edge, a self-loop), and long files whose records all
\* have the same source node.
EdgePool == {<<1, 2>>, <<2, 3>>, <<3, 4>>, <<2, 1>>, <<3, 3>>}
ShortFiles == UNION {[1..n -> EdgePool] : n \in 0..MaxEdges}
LongRow(n, off) == [k \in 1..n |-> <<1, (k + off) % (MatrixDim + 1)>>]
LongFiles == {LongRow(n, off) : n \in (MaxEdges + 1)..MaxRow, off \in {0, 1}}
FileTails == {"none", "space", "junk"}
\* an index past the end of rows
OutOfRange == MatrixDim + 1

\* add_edge that looks for room after the block is full
add_edge_late(rs, i, j, okrow, okadj) ==
  IF ~rs[i].alloc THEN
    IF ~okrow \/ ~okadj THEN [rows |-> rs, status |-> "exit"]
    ELSE [rows |-> [rs EXCEPT ![i] =
                      [alloc |-> TRUE, size |-> 1, adjacent_nodes |-> <<j>>,
                       cap |-> ADJ_BLOCK, visited |-> FALSE, reallocs |-> 0]],
          status |-> "running"]
  ELSE
    LET size == rs[i].size
        grow == size % ADJ_BLOCK = 0
        cap == IF ~grow THEN rs[i].cap
               ELSE IF okadj THEN size + 1 + ADJ_BLOCK ELSE 0 IN
    IF grow /\ ~okadj THEN [rows |-> rs, status |-> "segv"]
    ELSE IF size >= cap THEN [rows |-> rs, status |-> "overflow"]
    ELSE [rows |-> [rs EXCEPT ![i].adjacent_nodes = Append(@, j),
                              ![i].size = @ + 1,
                              ![i].cap = cap,
                              ![i].reallocs = IF grow THEN @ + 1 ELSE @],
          status |-> "running"]

\* add_edge(i, j).  okrow: malloc returned memory for the struct row; okadj:
\* malloc or realloc returned memory for adjacent_nodes.  A failed realloc
\* goes unnoticed (the test is of rows[i]) and the write goes through NULL;
\* a write at an index not below cap is "overflow".
add_edge(rs, i, j, okrow, okadj) ==
  IF ~rs[i].alloc THEN
    IF ~okrow \/ ~okadj THEN [rows |-> rs, status |-> "exit"]
    ELSE [rows |-> [rs EXCEPT ![i] =
                      [alloc |-> TRUE, size |-> 1, adjacent_nodes |-> <<j>>,
                       cap |-> ADJ_BLOCK, visited |-> FALSE, reallocs |-> 0]],
          status |-> "running"]
  ELSE
    LET size == rs[i].size
        grow == size % ADJ_BLOCK = ADJ_BLOCK - 1
        cap == IF ~grow THEN rs[i].cap
               ELSE IF okadj THEN size + 1 + ADJ_BLOCK ELSE 0 IN
    IF grow /\ ~okadj THEN [rows |-> rs, status |-> "segv"]
    ELSE IF size >= cap THEN [rows |-> rs, status |-> "overflow"]
    ELSE [rows |-> [rs EXCEPT ![i].adjacent_nodes = Append(@, j),
                              ![i].size = @ + 1,
                              ![i].cap = cap,
                              ![i].reallocs = IF grow THEN @ + 1 ELSE @],
          status |-> "running"]

\* main up to the edge loop: the registrations, the two files opened, the
\* header and the size line read, rows allocated and cleared.  ok: all of
\* that succeeded; otherwise main returns 1.
MainStart ==
  /\ status = "running" /\ prog.pc = "none"
  /\ \E ok \in BOOLEAN :
       prog' = IF ok THEN [prog EXCEPT !.pc = "load"]
               ELSE [prog EXCEPT !.pc = "done", !.code = 1]
  /\ reg' = RegisteredByMain
  /\ qreg' = RegisteredByMain
  /\ UNCHANGED <<allocVars, listVars, queueVars, status, last,
                 rows, file, bfs>>

\* one pass of while (!feof(fptr)): fscanf, then add_edge(i, j).  At the end
\* of the records fscanf returns -1 (or 0 before text that is no number) and
\* leaves i and j as they were: indeterminate values si, sj.
LoadEdge ==
  /\ status = "running" /\ prog.pc = "load" /\ ~prog.eof
  /\ \E okrow \in BOOLEAN, okadj \in BOOLEAN,
        si \in Nodes \cup {OutOfRange}, sj \in Nodes :
       LET n == Len(file.edges)
           got == prog.pos < n
           malformed == ~got /\ file.tail = "junk"
           i == IF got THEN file.edges[prog.pos + 1][1] ELSE si
           j == IF got THEN file.edges[prog.pos + 1][2] ELSE sj
           eof == IF got THEN prog.pos + 1 = n /\ file.tail = "none"
                  ELSE TRUE
           r == IF i \in Nodes THEN add_edge(rows, i, j, okrow, okadj)
                ELSE [rows |-> rows, status |-> "ub"] IN
       /\ got => (si = 0 /\ sj = 0)
       /\ IF malformed
          THEN /\ prog' = [prog EXCEPT !.pc = "done", !.code = 1]
               /\ UNCHANGED <<rows, status>>
          ELSE /\ rows' = r.rows
               /\ status' = r.status
               /\ prog' = [prog EXCEPT !.pos = IF got THEN @ + 1 ELSE @,
                                       !.eof = eof,
                                       !.line_count = @ + 1]
  /\ UNCHANGED <<regVars, allocVars, listVars, queueVars, last, file, bfs>>

\* the loop ends at feof
LoadEnd ==
  /\ status = "running" /\ prog.pc = "load" /\ prog.eof
  /\ prog' = [prog EXCEPT !.pc = "query"]
  /\ UNCHANGED <<regVars, allocVars, listVars, queueVars, status, last,
                 rows, file, bfs>>

LoadInit ==
  /\ level = 2
  /\ nodes = [a \in Addrs |-> FreeCell]
  /\ list = NoList
  /\ iter = NoIter
  /\ status = "running"
  /\ last = NoCall
  /\ ref = <<>>
  /\ queue = [alloc |-> FALSE]
  /\ out = 0
  /\ pushed = <<>>
  /\ popped = <<>>
  /\ AllocZero
  /\ reg = Unregistered
  /\ qreg = Unregistered
  /\ rows = [n \in Nodes |-> NoRow]
  /\ \E f \in ShortFiles \cup LongFiles, t \in FileTails :
       file = [edges |-> f, tail |-> t]
  /\ prog = NoProg
  /\ bfs = NoSearch

LoadStep ==
  \/ MainStart
  \/ LoadEdge
  \/ LoadEnd

SpecLoad == LoadInit /\ [][LoadStep]_vars

\* ---------------------------------------------- breadth_first_search
\* rows after the edge loop has read the records of s, every allocation
\* having succeeded
RECURSIVE LoadAll(_, _)
LoadAll(rs, s) ==
  IF s = <<>> THEN rs
  ELSE LoadAll(add_edge(rs, Head(s)[1], Head(s)[2], TRUE, TRUE).rows, Tail(s))

\* the query pairs the nodes file may hold; at its end fscanf returns -1
\* and the pair stays (0, 0)
Queries == Nodes \X Nodes

\* the address the registered allocation function returns for a node: the
\* lowest free cell, or NULL
NodeChoices(w) ==
  {NULL} \cup {a \in FreeAddrs(w) : \A b \in FreeAddrs(w) : a <= b}

\* the memory as breadth_first_search hands it to a queue call: popped_data
\* is &next_node
SearchWorld == [World EXCEPT !.out = bfs.next_node]

\* instrumented_malloc counts its calls; the registered free function is
\* custom_free, which counts nothing.  malloc_calls and free_calls: how
\* often the queue and list code called malloc_fptr and free_fptr.
Counted(b, w) == [b EXCEPT !.malloc_invocations = @ + w.mallocs,
                           !.malloc_calls = @ + w.mallocs,
                           !.free_calls = @ + w.frees]

\* the sizes the queue and list code asks for: a struct queue, node,
\* linked_list or iterator
StructSizes == {8, 16, 24, 32}

custom_malloc(aw, size, ok) == bump_ptr_allocator_malloc(aw, size, ok)

\* one more call of instrumented_malloc: h is the allocator and the
\* outcomes so far, a1 the allocator after the call
Then(h, a1) == [aw |-> a1, got |-> Append(h.got, a1.ptr # NULL)]

\* n calls of instrumented_malloc in a row: the allocator after them and,
\* call by call, whether custom_malloc returned memory.  ok: what the
\* system heap answers when the allocator asks it for a slab.
RECURSIVE instrumented_mallocs(_, _, _, _)
instrumented_mallocs(h, n, size, ok) ==
  IF n = 0 THEN h
  ELSE instrumented_mallocs(Then(h, custom_malloc(h.aw, size, ok)),
                            n - 1, size, ok)

\* the operation got the memory the allocator returned, and the allocator
\* is left as the calls left it
HeapIs(h, w) ==
  /\ h.got = w.got
  /\ allocator' = h.aw.a
  /\ blocks' = h.aw.blocks

\* The allocator behind the allocation calls of a queue operation.  built:
\* the calls go to the static allocator as main leaves it, and the
\* operation got the memory that allocator returned.  Otherwise the
\* allocation function is any that returns an address or NULL, and the
\* allocator is not looked at.
Heap(built, w) ==
  IF built
  THEN \E size \in StructSizes, ok \in BOOLEAN :
         HeapIs(instrumented_mallocs([aw |-> AllocWorld, got |-> <<>>],
                                     w.mallocs, size, ok), w)
  ELSE UNCHANGED <<allocator, blocks>>

\* if (j == data) found_path = true, that forgets an earlier match
Found_last(found_path, j, data) == j = data

\* if (j == data) found_path = true
Found(found_path, j, data) == found_path \/ j = data

\* the reset loop that stops at the first row it finds
ResetVisited_first(rs) ==
  [n \in Nodes |-> IF rs[n].alloc /\ \A k \in 0..(n - 1) : ~rs[k].alloc
                   THEN [rs[n] EXCEPT !.visited = FALSE] ELSE rs[n]]

\* for (j = 0; j < m + 1; j++) if (rows[j]) rows[j]->visited = false;
ResetVisited(rs) ==
  [n \in Nodes |-> IF rs[n].alloc THEN [rs[n] EXCEPT !.visited = FALSE]
                   ELSE rs[n]]

\* a search that expands a row without marking it
Visit_unmarked(rs, n) == rs

\* row->visited = true
Visit(rs, n) == [rs EXCEPT ![n].visited = TRUE]

\* main reads the next pair and calls breadth_first_search(i, j), which
\* creates its queue and arms the alarm
QueryStartIn(built) ==
  /\ status = "running" /\ prog.pc = "query"
  /\ prog.query < NUM_QUERIES /\ prog.query < MaxQueries
  /\ \E q \in Queries, okq \in BOOLEAN, okl \in BOOLEAN :
       \* the new local queue; a queue an earlier search left behind is
       \* out of reach, its nodes still allocated
       LET w == queue_create([World EXCEPT !.queue = [alloc |-> FALSE],
                                            !.list = NoList], okq, okl) IN
       /\ QueueCommit(w)
       /\ Heap(built, w)
       /\ last' = Call("queue_create", 0, 0, w)
       /\ bfs' = Counted([bfs EXCEPT !.pc = "loop", !.i = q[1], !.j = q[2],
                                     !.next_node = q[1], !.node_count = 0,
                                     !.found_path = FALSE, !.node = 0,
                                     !.alarm = TRUE, !.ret = FALSE,
                                     !.oom = ~okq \/ ~okl], w)
  /\ prog' = [prog EXCEPT !.pc = "search"]
  /\ pushed' = <<>>
  /\ popped' = <<>>
  /\ UNCHANGED <<regVars, regions, destroys, level, ref, rows, file>>

QueryStart == QueryStartIn(FALSE)

\* the head of while (!found_path): leave the loop, or look at
\* rows[next_node]; a row that is NULL or visited pops the next node
BfsLoopIn(built) ==
  /\ status = "running" /\ bfs.pc = "loop"
  /\ IF bfs.found_path
     THEN /\ bfs' = [bfs EXCEPT !.pc = "finish"]
          /\ UNCHANGED <<nodes, list, iter, status, queue, out, last,
                         popped, rows, allocator, blocks>>
     ELSE IF ~rows[bfs.next_node].alloc \/ rows[bfs.next_node].visited
     THEN \E ok \in BOOLEAN :
            LET w == queue_pop(SearchWorld, ok) IN
            /\ QueueCommit(w)
            /\ Heap(built, w)
            /\ last' = Call("queue_pop", 0, 0, w)
            /\ popped' = IF w.ret THEN Append(popped, w.out) ELSE popped
            /\ bfs' = Counted([bfs EXCEPT
                                 !.next_node = w.out,
                                 !.node_count = @ + 1,
                                 !.oom = @ \/ (~ok /\ w.mallocs > 0),
                                 !.pc = IF w.ret THEN "loop" ELSE "finish"],
                              w)
            /\ UNCHANGED rows
     ELSE /\ rows' = Visit(rows, bfs.next_node)
          /\ bfs' = [bfs EXCEPT !.pc = "push", !.node = 0]
          /\ UNCHANGED <<nodes, list, iter, status, queue, out, last,
                         popped, allocator, blocks>>
  /\ UNCHANGED <<regVars, regions, destroys, level, ref, pushed, file, prog>>

BfsLoop == BfsLoopIn(FALSE)

\* one pass of the for loop over row->adjacent_nodes: test for the target,
\* push; a failed push leaves by return 1
BfsPushIn(built) ==
  /\ status = "running" /\ bfs.pc = "push"
  /\ bfs.node < rows[bfs.next_node].size
  /\ \E p \in NodeChoices(World), junk \in Indeterminate :
       LET data == rows[bfs.next_node].adjacent_nodes[bfs.node + 1]
           w == queue_push(SearchWorld, data, p, junk) IN
       /\ QueueCommit(w)
       /\ Heap(built, w)
       /\ last' = Call("queue_push", 0, data, w)
       /\ pushed' = IF w.ret THEN Append(pushed, data) ELSE pushed
       /\ bfs' = Counted([bfs EXCEPT
                            !.found_path = Found(@, bfs.j, data),
                            !.oom = @ \/ (p = NULL /\ w.mallocs > 0),
                            !.node = IF w.ret THEN @ + 1 ELSE @,
                            !.ret = IF w.ret THEN @ ELSE TRUE,
                            !.pc = IF w.ret THEN "push" ELSE "returned"],
                         w)
  /\ UNCHANGED <<regVars, regions, destroys, level, ref, popped, rows,
                 file, prog>>

BfsPush == BfsPushIn(FALSE)

\* after the for loop: pop the next node, or leave the loop
BfsPopIn(built) ==
  /\ status = "running" /\ bfs.pc = "push"
  /\ bfs.node = rows[bfs.next_node].size
  /\ \E ok \in BOOLEAN :
       LET w == queue_pop(SearchWorld, ok) IN
       /\ QueueCommit(w)
       /\ Heap(built, w)
       /\ last' = Call("queue_pop", 0, 0, w)
       /\ popped' = IF w.ret THEN Append(popped, w.out) ELSE popped
       /\ bfs' = Counted([bfs EXCEPT
                            !.next_node = w.out,
                            !.node_count = IF w.ret THEN @ + 1 ELSE @,
                            !.oom = @ \/ (~ok /\ w.mallocs > 0),
                            !.pc = IF w.ret THEN "loop" ELSE "finish"],
                         w)
  /\ UNCHANGED <<regVars, regions, destroys, level, ref, pushed, rows,
                 file, prog>>

\* the pop after the for loop without its ++node_count
BfsPop_uncounted ==
  /\ status = "running" /\ bfs.pc = "push"
  /\ bfs.node = rows[bfs.next_node].size
  /\ \E ok \in BOOLEAN :
       LET w == queue_pop(SearchWorld, ok) IN
       /\ QueueCommit(w)
       /\ last' = Call("queue_pop", 0, 0, w)
       /\ popped' = IF w.ret THEN Append(popped, w.out) ELSE popped
       /\ bfs' = Counted([bfs EXCEPT
                            !.next_node = w.out,
                            !.oom = @ \/ (~ok /\ w.mallocs > 0),
                            !.pc = IF w.ret THEN "loop" ELSE "finish"],
                         w)
  /\ UNCHANGED <<regVars, allocVars, level, ref, pushed, rows, file, prog>>

BfsPop == BfsPopIn(FALSE)

\* after the loop: queue_delete, alarm(0), the report, return found_path
BfsFinish ==
  /\ status = "running" /\ bfs.pc = "finish"
  /\ LET w == queue_delete(SearchWorld) IN
       /\ QueueCommit(w)
       /\ last' = Call("queue_delete", 0, 0, w)
       /\ bfs' = Counted([bfs EXCEPT !.alarm = FALSE,
                                     !.ret = bfs.found_path,
                                     !.pc = "returned"], w)
  /\ UNCHANGED <<regVars, allocVars, level, ref, pushed, popped,
                 rows, file, prog>>

\* main after the search: the verdict printed, every row's visited flag
\* cleared, the call counters cleared, the next query.  The locals of the
\* search that returned are gone; alarm, a process timer, stays as it is.
QueryDone ==
  /\ status = "running" /\ prog.pc = "search" /\ bfs.pc = "returned"
  /\ rows' = ResetVisited(rows)
  /\ bfs' = [NoSearch EXCEPT !.alarm = bfs.alarm]
  /\ prog' = [prog EXCEPT !.query = @ + 1,
                          !.marked = Cardinality({n \in Nodes :
                                                   rows[n].visited}),
                          !.pc = IF prog.query + 1 = NUM_QUERIES
                                 THEN "done" ELSE "query"]
  /\ out' = 0
  /\ pushed' = <<>>
  /\ popped' = <<>>
  /\ last' = NoCall
  /\ UNCHANGED <<regVars, allocVars, listVars, queue, status, file>>

BfsInit ==
  /\ level = 2
  /\ nodes = [a \in Addrs |-> FreeCell]
  /\ list = NoList
  /\ iter = NoIter
  /\ status = "running"
  /\ last = NoCall
  /\ ref = <<>>
  /\ queue = [alloc |-> FALSE]
  /\ out = 0
  /\ pushed = <<>>
  /\ popped = <<>>
  /\ AllocZero
  /\ reg = RegisteredByMain
  /\ qreg = RegisteredByMain
  /\ \E f \in ShortFiles \ {<<>>} :
       /\ file = [edges |-> f, tail |-> "none"]
       /\ rows = LoadAll([n \in Nodes |-> NoRow], f)
       /\ prog = [NoProg EXCEPT !.pc = "query", !.pos = Len(f),
                                !.eof = TRUE, !.line_count = Len(f)]
  /\ bfs = NoSearch

BfsStep ==
  \/ QueryStart
  \/ BfsLoop
  \/ BfsPush
  \/ BfsPop
  \/ BfsFinish
  \/ QueryDone

SpecBfs == BfsInit /\ [][BfsStep]_vars

\* One call of breadth_first_search, main's first.  The process is
\* scheduled: a statement that can run does run.
SearchStep ==
  \/ QueryStart
  \/ BfsLoop
  \/ BfsPush
  \/ BfsPop
  \/ BfsFinish

SpecSearch == BfsInit /\ [][SearchStep]_vars /\ WF_vars(SearchStep)

\* ------------------------------------------------ the benchmark as built
\* main from its first line, its allocation calls served by the static
\* allocator: short files without a final newline
MainFiles == UNION {[1..n -> EdgePool] : n \in 1..(MaxEdges - 1)}

MainInit ==
  /\ level = 2
  /\ nodes = [a \in Addrs |-> FreeCell]
  /\ list = NoList
  /\ iter = NoIter
  /\ status = "running"
  /\ last = NoCall
  /\ ref = <<>>
  /\ queue = [alloc |-> FALSE]
  /\ out = 0
  /\ pushed = <<>>
  /\ popped = <<>>
  /\ AllocZero
  /\ reg = Unregistered
  /\ qreg = Unregistered
  /\ rows = [n \in Nodes |-> NoRow]
  /\ \E f \in MainFiles : file = [edges |-> f, tail |-> "none"]
  /\ prog = NoProg
  /\ bfs = NoSearch

MainQueryStart == QueryStartIn(TRUE)
MainBfsLoop == BfsLoopIn(TRUE)
MainBfsPush == BfsPushIn(TRUE)

\* The steps of main with the allocator it is linked with.  queue_pop has
\* no step here: the search calls it only after queue_has_next returned
\* true, and that takes a queue_push that succeeded, which this allocator
\* never lets happen (BfsPushIn(TRUE) leaves by its failure branch).
MainStep ==
  \/ MainStart
  \/ LoadEdge
  \/ LoadEnd
  \/ MainQueryStart
  \/ MainBfsLoop
  \/ MainBfsPush
  \/ BfsFinish
  \/ QueryDone

SpecMain == MainInit /\ [][MainStep]_vars

\* ------------------------------------------------ the timing of a search
\* The clock readings of breadth_first_search and what it computes from
\* them.  The readings have no part in the search itself: the other
\* specifications leave start, stop and nanoseconds at zero.
NanoChoices == {0, 1, 100000000, 250000000, 500000000, 750000000,
                900000000, NSEC_PER_SEC - 1}
Times == [tv_sec : 0..MaxSec, tv_nsec : NanoChoices]

\* a is not later than b
NotAfter(a, b) ==
  a.tv_sec < b.tv_sec \/ (a.tv_sec = b.tv_sec /\ a.tv_nsec <= b.tv_nsec)

compute_timespec_diff(start, stop) ==
  LET nanoseconds == (stop.tv_sec - start.tv_sec) * NSEC_PER_SEC IN
  IF start.tv_nsec > stop.tv_nsec
  THEN nanoseconds - NSEC_PER_SEC + (start.tv_nsec - stop.tv_nsec)
  ELSE nanoseconds + (stop.tv_nsec - start.tv_nsec)

sum_timespec(destination, additional_time) ==
  LET nsec == destination.tv_nsec + additional_time.tv_nsec IN
  [tv_sec |-> (IF nsec > NSEC_PER_SEC THEN destination.tv_sec + 1
               ELSE destination.tv_sec) + additional_time.tv_sec,
   tv_nsec |-> nsec]

\* GRAB_CLOCK(start) has run
TimeInit ==
  /\ level = 2
  /\ nodes = [a \in Addrs |-> FreeCell]
  /\ list = NoList
  /\ iter = NoIter
  /\ status = "running"
  /\ last = NoCall
  /\ ref = <<>>
  /\ queue = [alloc |-> FALSE]
  /\ out = 0
  /\ pushed = <<>>
  /\ popped = <<>>
  /\ AllocZero
  /\ reg = RegisteredByMain
  /\ qreg = RegisteredByMain
  /\ rows = [n \in Nodes |-> NoRow]
  /\ file = NoFile
  /\ prog = [NoProg EXCEPT !.pc = "search"]
  /\ \E start \in Times : bfs = [NoSearch EXCEPT !.pc = "timed",
                                                  !.start = start]

\* GRAB_CLOCK(stop), nanoseconds = compute_timespec_diff(start, stop), and
\* the elapsed time added to total_time
TimeStop ==
  /\ status = "running" /\ bfs.pc = "timed"
  /\ \E stop \in Times :
       /\ NotAfter(bfs.start, stop)
       /\ LET nanoseconds == compute_timespec_diff(bfs.start, stop)
              time_for_sum == [tv_nsec |-> nanoseconds % NSEC_PER_SEC,
                               tv_sec |-> nanoseconds \div NSEC_PER_SEC] IN
            /\ bfs' = [bfs EXCEPT !.stop = stop,
                                  !.nanoseconds = nanoseconds,
                                  !.pc = "returned"]
            /\ prog' = [prog EXCEPT
                          !.total_time = sum_timespec(@, time_for_sum)]
  /\ UNCHANGED <<regVars, allocVars, listVars, queueVars, status, last,
                 rows, file>>

SpecTime == TimeInit /\ [][TimeStop]_vars

\* ======================================================== properties
\* the number of nodes reachable from curr by next links up to the NULL
\* link; -1 when the walk leaves the live cells or does not end
RECURSIVE CountFrom(_, _, _)
CountFrom(w, curr, fuel) ==
  IF curr = NULL THEN 0
  ELSE IF ~IsLive(w, curr) \/ fuel = 0 THEN -1
  ELSE LET r == CountFrom(w, w.nodes[curr].next, fuel - 1) IN
       IF r < 0 THEN -1 ELSE r + 1

\* the values an iterator shows: its data, then linked_list_iterate until
\* it returns false
RECURSIVE IterateFrom(_, _)
IterateFrom(w, fuel) ==
  LET w1 == linked_list_iterate(w) IN
  IF w1.status # "running"
  THEN [status |-> w1.status, seq |-> <<w.iter.data>>]
  ELSE IF ~w1.ret THEN [status |-> "running", seq |-> <<w.iter.data>>]
  ELSE IF fuel = 0 THEN [status |-> "hang", seq |-> <<w.iter.data>>]
  ELSE LET r == IterateFrom(w1, fuel - 1) IN
       [status |-> r.status, seq |-> <<w.iter.data>> \o r.seq]

\* linked_list_create_iterator(list, 0), then the walk above
IteratorTraversal(w) ==
  LET w0 == CreateIterator_L(w, 0, TRUE) IN
  IF w0.status # "running" THEN [status |-> w0.status, seq |-> <<>>]
  ELSE IF ~w0.ret THEN [status |-> "running", seq |-> <<>>]
  ELSE IterateFrom(w0, MaxNodes)

SizeAndTraversalAgree ==
  /\ CountFrom(World, list.head, MaxNodes) = list.size
  /\ IteratorTraversal(World) = [status |-> "running", seq |-> ref]

\* the node at position i of the list (NULL when the walk fails)
NodeAtIndex(w, i) ==
  LET r == WalkNext(w, w.list.head, i) IN
  IF r.ok /\ IsLive(w, r.p) THEN r.p ELSE NULL

\* C2: in the level-2 list, after in-bounds inserts and removes, size is
\* the number of nodes reachable from head up to the end-of-list sentinel
\* and an iterator from index 0 yields the reference sequence.
C2_Level2SizeAndTraversal ==
  (level = 2 /\ status = "running" /\ list.alloc) => SizeAndTraversalAgree

\* C3: in the level-1 list, after in-bounds inserts and removes, size is
\* the number of nodes reachable from head and an iterator from index 0
\* yields the reference sequence.
C3_Level1SizeAndTraversal ==
  /\ (level = 1 /\ status = "running" /\ list.alloc) => SizeAndTraversalAgree
  /\ level = 1 => status \notin {"ub", "hang"}

C3_Witness ==
  /\ level = 1 /\ status = "running" /\ list.alloc
  /\ last.op = "remove" /\ last.ret /\ last.index = 1
  /\ Len(ref) = 2 /\ ref[1] # ref[2]

\* C5 as stated: in either level, linked_list_insert_end(list, v) followed
\* immediately by linked_list_find(list, v) returns the size the list had
\* before the insertion, for any list state and any v.
C5_FindAfterInsertEnd ==
  (status = "running" /\ last.op = "insert_end" /\ last.ret)
    => linked_list_find(World, last.data)
         = [status |-> "running", index |-> last.index]

\* C5 amended: the same, provided v did not occur in the list before the
\* insertion.
C5_FindAfterInsertEndOfNewValue ==
  (/\ status = "running" /\ last.op = "insert_end" /\ last.ret
   /\ \A i \in 1..(Len(ref) - 1) : ref[i] # last.data)
    => linked_list_find(World, last.data)
         = [status |-> "running", index |-> last.index]

C5_Witness ==
  /\ status = "running" /\ last.op = "insert_end" /\ last.ret
  /\ last.index = 2 /\ level = 2
  /\ \A i \in 1..(Len(ref) - 1) : ref[i] # last.data
  /\ linked_list_find(World, last.data).index = 2

\* C6: in either level, linked_list_remove(list, index) with index >= size
\* returns failure, leaves the size, the nodes and their values as they
\* were and makes no call to the registered free function.
C6_RemoveOutOfRange ==
  [][(/\ last'.op = "remove" /\ list.alloc /\ last'.index >= list.size)
       => (/\ status' = "running" /\ ~last'.ret /\ last'.frees = 0
           /\ nodes' = nodes /\ list' = list)]_vars

C6_Witness ==
  /\ status = "running" /\ last.op = "remove" /\ ~last.ret
  /\ list.alloc /\ list.size = 2 /\ last.index = 2

\* C7: in the level-2 list, after removing the last element (index N-1 of
\* N), tail is the node now at index N-2, and is empty when none remain.
C7_TailAfterRemovingLast ==
  (/\ level = 2 /\ status = "running" /\ list.alloc
   /\ last.op = "remove" /\ last.ret /\ last.index = list.size)
    => list.tail = (IF list.size = 0 THEN NULL
                    ELSE NodeAtIndex(World, list.size - 1))

\* C8: in the level-2 list, whenever the list is non-empty the next link
\* of the node tail refers to is the end-of-list sentinel.
C8_TailNextIsSentinel ==
  (level = 2 /\ status = "running" /\ list.alloc /\ list.size > 0)
    => (IsLive(World, list.tail) /\ nodes[list.tail].next = NULL)

\* C9: in the level-2 list, tail is absent exactly when size is 0, and
\* when size > 0 it refers to the node at index size-1.
C9_TailPresence ==
  (level = 2 /\ status = "running" /\ list.alloc)
    => (/\ (list.tail = NULL) <=> (list.size = 0)
        /\ list.size > 0 => list.tail = NodeAtIndex(World, list.size - 1))

\* C1: for a queue created empty, the k-th successful queue_pop writes the
\* k-th pushed value, and queue_size is the number of successful pushes
\* less the number of successful pops (one up per push, one down per pop);
\* no push, pop or peek reads a released or unwritten node.
C1_QueueFifo ==
  /\ (status = "running" /\ queue.alloc /\ list.alloc)
       => (/\ Len(popped) <= Len(pushed)
           /\ popped = SubSeq(pushed, 1, Len(popped))
           /\ queue_size(World) = Len(pushed) - Len(popped))
  /\ (last.op \in {"queue_push", "queue_pop", "queue_next"})
       => status \notin {"ub", "hang"}
  /\ (last.op = "queue_pop" /\ last.ret)
       => (status = "running" /\ out = popped[Len(popped)])

C1_Witness ==
  /\ status = "running" /\ last.op = "queue_pop" /\ last.ret
  /\ Len(pushed) = 3 /\ Len(popped) = 2
  /\ popped[1] # popped[2] /\ out = popped[2]

\* whether two returned regions [p, p+size) share a byte
Overlap(r1, r2) == r1.p < r2.p + r2.size /\ r2.p < r1.p + r1.size

\* C4: when the requests exceed the active slab, the excess is served from
\* a new slab of double the previous slab's size, and no two returned
\* regions overlap, the one returned by the request that created the slab
\* included.
C4_NoOverlapUnderGrowth ==
  (status = "running" /\ allocator.initialized
     /\ allocator.slabs[0].alloc_size = DEFAULT_ALLOC_SIZE_BYTES)
    => (/\ \A i \in 1..Len(regions) :
             (regions[i].grew
              /\ allocator.slabs[regions[i].slab - 1].alloc_size > 0)
               => allocator.slabs[regions[i].slab].alloc_size
                    = 2 * allocator.slabs[regions[i].slab - 1].alloc_size
        /\ \A i, j \in 1..Len(regions) :
             i < j => ~Overlap(regions[i], regions[j]))

\* C10: bump_ptr_allocator_init on an initialized allocator ends the
\* process instead of returning; destroy clears initialized, and init on an
\* allocator that is not initialized returns with the process running.
C10_DoubleInitTerminates ==
  [][(last'.op = "init"
        => IF allocator.initialized
           THEN status' = "exit"
           ELSE status' = "running" /\ allocator'.initialized)
     /\ (last'.op = "destroy" /\ status' = "running"
           => ~allocator'.initialized)]_vars

C10_Witness ==
  /\ status = "exit" /\ last.op = "init"
  /\ destroys >= 1 /\ allocator.initialized

\* the queue is not NULL, its list exists and holds at least one value
NonEmptyQueue == queue.alloc /\ list.alloc /\ list.size > 0

\* C14: queue_next on a non-empty queue returns success, writes the front
\* value to the out parameter and leaves the size, the nodes and their
\* order as they were; two calls in a row write the same value.
C14_PeekIsNonDestructive ==
  [][(last'.op = "queue_next" /\ NonEmptyQueue /\ status' = "running")
       => (/\ last'.ret
           /\ out' = pushed[Len(popped) + 1]
           /\ list' = list /\ nodes' = nodes /\ queue' = queue
           /\ (last.op = "queue_next" /\ last.ret => out' = out))]_vars

C14_Witness ==
  /\ status = "running" /\ last.op = "queue_next" /\ last.ret
  /\ Len(popped) = 1 /\ list.size = 2
  /\ out = pushed[2] /\ pushed[2] # pushed[1] /\ pushed[3] # pushed[2]

\* C15 as stated: for every queue argument, a null queue included,
\* queue_has_next(queue) is true if and only if queue_size(queue) > 0.
C15_HasNextIffSizePositive ==
  status = "running" => (queue_has_next(World) <=> queue_size(World) > 0)

\* C15 amended: for a queue that is not null, queue_has_next is true if and
\* only if queue_size > 0, which for a queue with a list is when more was
\* pushed than popped; for a null queue queue_has_next is false and
\* queue_size is the maximum-value sentinel.
C15_HasNextOfNonNullQueue ==
  status = "running"
    => (/\ queue.alloc => (queue_has_next(World) <=> queue_size(World) > 0)
        /\ (queue.alloc /\ list.alloc)
             => (queue_has_next(World) <=> Len(pushed) > Len(popped))
        /\ ~queue.alloc
             => (~queue_has_next(World) /\ queue_size(World) = SIZE_MAX))

C15_Witness ==
  /\ status = "running" /\ queue.alloc /\ list.alloc
  /\ Len(popped) = 1 /\ Len(pushed) = 2 /\ queue_has_next(World)

\* the queue is NULL, or it has a list and the list is empty
NullOrEmptyQueue == ~queue.alloc \/ (list.alloc /\ list.size = 0)

\* C16: queue_pop on a null queue or an empty queue returns failure, does
\* not write the out parameter, leaves the queue as it was (empty, size 0)
\* and calls neither the allocation function nor the free function.
C16_PopOfNothing ==
  [][(last'.op = "queue_pop" /\ NullOrEmptyQueue)
       => (/\ status' = "running" /\ ~last'.ret
           /\ out' = out
           /\ list' = list /\ nodes' = nodes /\ queue' = queue
           /\ last'.frees = 0
           /\ \A ok \in BOOLEAN : queue_pop(World, ok).mallocs = 0)]_vars

C16_Witness ==
  /\ status = "running" /\ last.op = "queue_pop" /\ ~last.ret
  /\ queue.alloc /\ list.alloc /\ list.size = 0
  /\ Len(popped) = 1 /\ out = popped[1] /\ out # 0

\* C17: queue_create returns NULL whenever an allocation fails, that of the
\* queue header or that of the list: the queue it returns has a list.
C17_CreateFailsWithoutList ==
  (last.op = "queue_create" /\ last.ret /\ status = "running")
    => (queue.alloc /\ list.alloc)

\* C18: when the allocation function returns NULL for the new node,
\* queue_push returns failure, the process keeps running and the queue's
\* size and contents are unchanged.
C18_PushSurvivesFailedAllocation ==
  (status = "running" /\ queue.alloc /\ list.alloc)
    => \A data \in Data, junk \in Indeterminate :
         LET w == queue_push(World, data, NULL, junk) IN
         /\ w.status = "running" /\ ~w.ret
         /\ w.list = list /\ w.nodes = nodes

\* C19: in both levels, linked_list_create returns NULL and calls no
\* allocation function when malloc_fptr or free_fptr is not registered.
C19_CreateNeedsRegistration ==
  [][(last'.op = "create" /\ (~reg.malloc \/ ~reg.free))
       => (/\ status' = "running" /\ ~last'.ret /\ ~list'.alloc
           /\ \A ok \in BOOLEAN : Create_L(World, ok).mallocs = 0)]_vars

\* C20: in both levels, linked_list_create_iterator(list, index) with
\* index < size returns an iterator whose current_index is index, whose
\* current node is the node at position index and whose data is that
\* node's value; with index >= size it returns NULL.
C20_IteratorPositionedAtIndex ==
  [][(last'.op = "create_iterator" /\ list.alloc /\ status' = "running")
       => IF last'.index < list.size
          THEN /\ last'.ret /\ iter'.alloc
               /\ iter'.current_index = last'.index
               /\ iter'.current_node = NodeAtIndex(World, last'.index)
               /\ iter'.current_node # NULL
               /\ iter'.data = nodes[iter'.current_node].data
               /\ iter'.data = ref[last'.index + 1]
          ELSE ~last'.ret /\ ~iter'.alloc]_vars

\* the targets of the records of s whose source is n, in file order
TargetsOf(n, s) ==
  LET sel == SelectSeq(s, LAMBDA rec : rec[1] = n) IN
  [k \in 1..Len(sel) |-> sel[k][2]]

\* C12: a row given 17 edges has size 17, an array allocated as 16 slots
\* and grown once, to 32 slots, and the 17 targets in call order; after any
\* number of calls every write was at an index below the capacity the
\* array had then (no "overflow"), the capacity being the next multiple of
\* 16 above size.
C12_AddEdgeGrowth ==
  /\ status # "overflow"
  /\ (status = "running" /\ prog.pc \in {"load", "query"})
       => \A n \in Nodes :
            rows[n].alloc
              => (/\ rows[n].size >= 1
                  /\ rows[n].size = Len(rows[n].adjacent_nodes)
                  /\ rows[n].size <= rows[n].cap
                  /\ rows[n].cap = ADJ_BLOCK * ((rows[n].size \div ADJ_BLOCK) + 1)
                  /\ rows[n].reallocs = rows[n].size \div ADJ_BLOCK
                  /\ (rows[n].size = 17
                        => (rows[n].cap = 32 /\ rows[n].reallocs = 1))
                  /\ (prog.line_count = prog.pos
                        => rows[n].adjacent_nodes
                             = TargetsOf(n, SubSeq(file.edges, 1, prog.pos))))

C12_Witness ==
  /\ status = "running" /\ prog.pc = "load"
  /\ prog.pos = 17 /\ prog.line_count = 17
  /\ rows[1].size = 17 /\ rows[1].cap = 32
  /\ rows[1].adjacent_nodes[16] # rows[1].adjacent_nodes[17]

\* the graph with exactly the edges 1->2, 2->3, 3->4
ChainGraph ==
  \A n \in Nodes :
    rows[n].adjacent_nodes = IF n \in 1..3 THEN <<n + 1>> ELSE <<>>

\* breadth_first_search(i, j) on the chain, no allocation having failed
ChainSearch(i, j) ==
  ChainGraph /\ bfs.pc # "none" /\ bfs.i = i /\ bfs.j = j /\ ~bfs.oom

\* C11 as stated: on the chain 1->2->3->4 breadth_first_search(1, 4)
\* returns true with a node count of 4 and breadth_first_search(4, 1)
\* returns false.
C11_ChainSearchCountsFour ==
  (status = "running" /\ bfs.pc = "returned")
    => (/\ ChainSearch(1, 4) => (bfs.ret /\ bfs.node_count = 4)
        /\ ChainSearch(4, 1) => ~bfs.ret)

\* C11 amended: on the chain 1->2->3->4 breadth_first_search(1, 4) returns
\* true with a node count of 3 (one per successful pop) and
\* breadth_first_search(4, 1) returns false (node count 1); neither search
\* ends the process.
C11_ChainSearchCountsThree ==
  /\ (ChainSearch(1, 4) \/ ChainSearch(4, 1)) => status = "running"
  /\ (status = "running" /\ bfs.pc = "returned")
       => (/\ ChainSearch(1, 4) => (bfs.ret /\ bfs.node_count = 3)
           /\ ChainSearch(4, 1) => (~bfs.ret /\ bfs.node_count = 1))

C11_Witness ==
  /\ status = "running" /\ bfs.pc = "returned" /\ ChainSearch(1, 4)
  /\ bfs.ret /\ bfs.node_count = 3 /\ ~queue.alloc /\ ~bfs.alarm

\* C13: whenever main is about to read a query, the first or one after a
\* reset, every row's visited flag is false, whatever the search before
\* marked.
C13_QueriesStartUnvisited ==
  (status = "running" /\ prog.pc = "query")
    => \A n \in Nodes : ~rows[n].visited

C13_Witness ==
  /\ status = "running" /\ prog.pc = "query"
  /\ prog.query = 1 /\ prog.marked = 3
  /\ \A n \in Nodes : ~rows[n].visited

\* the allocator is initialized and every slab up to the active one was
\* created: slab_init clears data when the system heap refuses
SlabsCreated ==
  /\ allocator.initialized
  /\ \A k \in 0..allocator.slab_ptr : allocator.slabs[k].data # NULL

\* the capacities of slabs 0..k added up
RECURSIVE CapacityUpTo(_)
CapacityUpTo(k) ==
  IF k < 0 THEN 0 ELSE allocator.slabs[k].alloc_size + CapacityUpTo(k - 1)

SlabGeometry ==
  /\ \A k \in 0..allocator.slab_ptr :
       allocator.slabs[k].alloc_size = DEFAULT_ALLOC_SIZE_BYTES * (2 ^ k)
  /\ allocator.last_alloc_size
       = SizeT(allocator.slabs[allocator.slab_ptr].alloc_size)
  /\ allocator.total_mem_allocated = SizeT(CapacityUpTo(allocator.slab_ptr))

\* C21: with every slab creation successful, slab k has capacity
\* 4096 * 2^k, last_alloc_size is the active slab's capacity and
\* total_mem_allocated the sum of the capacities up to the active slab; a
\* call of malloc leaves the active index or raises it by one, and raises
\* it only when the active slab could not serve the request.
C21_GrowthInvariant ==
  [][/\ (status' = "running" /\ SlabsCreated') => SlabGeometry'
     /\ last'.op = "malloc"
          => \/ allocator'.slab_ptr = allocator.slab_ptr
             \/ /\ allocator'.slab_ptr = allocator.slab_ptr + 1
                /\ slab_malloc(AllocWorld, allocator.slab_ptr,
                               last'.index).ptr = NULL]_vars

C21_Witness ==
  /\ status = "running" /\ SlabsCreated /\ allocator.slab_ptr = 2
  /\ last.op = "malloc" /\ last.ret
  /\ allocator.total_mem_allocated = SizeT(7 * DEFAULT_ALLOC_SIZE_BYTES)

\* C22: a request the active slab cannot serve, made when the active slab
\* is the last slot, returns NULL with the process running and the
\* allocator as it was: active index, last_alloc_size, total_mem_allocated
\* and every slab's fields.
C22_LastSlotReturnsNull ==
  [][(/\ last'.op = "malloc"
      /\ allocator.slab_ptr + 1 >= DEFAULT_NUM_SLABS
      /\ slab_malloc(AllocWorld, allocator.slab_ptr, last'.index).ptr = NULL)
       => (/\ ~last'.ret /\ last'.data = NULL
           /\ status' = "running"
           /\ allocator' = allocator)]_vars

C22_Witness ==
  /\ status = "running" /\ last.op = "malloc" /\ ~last.ret
  /\ last.slot = DEFAULT_NUM_SLABS - 1
  /\ allocator.slab_ptr = DEFAULT_NUM_SLABS - 1
  /\ allocator.slabs[0].curr > allocator.slabs[0].data

\* C23: after bump_ptr_allocator_destroy has returned, every slab slot has
\* data, curr, end and alloc_size reset, and slab_ptr, last_alloc_size and
\* total_mem_allocated are zero with initialized cleared.
C23_DestroyResetsEverything ==
  (status = "running" /\ last.op = "destroy")
    => (/\ \A i \in SlabIndexes : allocator.slabs[i] = ZeroSlab
        /\ allocator.slab_ptr = 0
        /\ allocator.last_alloc_size = SizeT(0)
        /\ allocator.total_mem_allocated = SizeT(0)
        /\ ~allocator.initialized)

\* C29: an address bump_ptr_allocator_malloc returns is the start of the
\* allocation: 8-byte aligned in an 8-byte-aligned slab, with [p, p + size)
\* inside the active slab and the slab's cursor at p + size.
C29_ReturnedAddressIsStart ==
  (status = "running" /\ last.op = "malloc" /\ last.ret)
    => LET slab == allocator.slabs[allocator.slab_ptr]
           p == last.data
           size == last.index IN
       /\ p % 8 = 0 /\ slab.data % 8 = 0
       /\ slab.data <= p /\ p + size <= slab.end
       /\ slab.curr = p + size

\* the sizes of rows 0..n added up
RECURSIVE SizesUpTo(_)
SizesUpTo(n) == IF n < 0 THEN 0 ELSE rows[n].size + SizesUpTo(n - 1)

\* C27: when the edge loop has ended on a file of E records, followed by
\* nothing or by white space, add_edge has run once per record: the row
\* sizes add up to E and each row holds its targets in file order.
C27_OneAddEdgePerRecord ==
  (prog.pc = "query" /\ file.tail \in {"none", "space"})
    => (/\ status = "running"
        /\ SizesUpTo(MatrixDim) = Len(file.edges)
        /\ \A n \in Nodes :
             rows[n].adjacent_nodes = TargetsOf(n, file.edges))

\* C28: the bump allocator has been set up (bump_ptr_setup) before the
\* first allocation of the program goes through custom_malloc
C28_SetupBeforeFirstMalloc ==
  bfs.malloc_calls > 0 => allocator.initialized

\* C24: a queue_push that fails during breadth_first_search ends the run
\* with exit code 1: the search does not return true because of it, and
\* main does not go on with the remaining queries
C24_PushFailureEndsRun ==
  (bfs.pc = "returned" /\ last.op = "queue_push")
    => (status = "exit" /\ prog.code = 1 /\ ~bfs.ret)

\* C25: whenever breadth_first_search has returned, the queue it created
\* is deleted and the alarm is disarmed; between two searches no alarm is
\* pending
C25_QueueDeletedAlarmOff ==
  /\ (status = "running" /\ bfs.pc = "returned")
       => (~queue.alloc /\ ~bfs.alarm)
  /\ (status = "running" /\ prog.pc = "query") => ~bfs.alarm

\* C26: when breadth_first_search prints its statistics, malloc_invocations
\* and free_invocations are the numbers of calls the queue and list code
\* made to the registered malloc and free during the query; both are zero
\* when a query starts
C26_CountersMatchCalls ==
  /\ (status = "running" /\ bfs.pc = "returned" /\ last.op = "queue_delete")
       => /\ bfs.malloc_invocations = bfs.malloc_calls
          /\ bfs.free_invocations = bfs.free_calls
  /\ (status = "running" /\ prog.pc = "query")
       => /\ bfs.malloc_invocations = 0
          /\ bfs.free_invocations = 0

\* rows[u] lists v among its adjacent nodes
Edge(u, v) ==
  /\ rows[u].alloc
  /\ \E k \in 1..rows[u].size : rows[u].adjacent_nodes[k] = v

\* the nodes that paths of at most n edges lead to from the nodes of S
RECURSIVE Within(_, _)
Within(S, n) ==
  IF n = 0 THEN S
  ELSE Within(S \cup {v \in Nodes : \E u \in S : Edge(u, v)}, n - 1)

\* a path of at least one edge leads from i to j
Reachable(i, j) ==
  \E u \in Within({i}, Cardinality(Nodes)) : Edge(u, j)

\* C30: when no queue operation of the search failed for want of memory,
\* breadth_first_search(i, j) returns true exactly when a path of at least
\* one edge leads from i to j (every search starts with all rows
\* unvisited, C13)
C30_TrueIffReachable ==
  (status = "running" /\ bfs.pc = "returned" /\ ~bfs.oom)
    => (bfs.ret <=> Reachable(bfs.i, bfs.j))

C30_Witness ==
  /\ status = "running" /\ bfs.pc = "returned" /\ ~bfs.oom
  /\ last.op = "queue_delete"
  /\ bfs.ret /\ Reachable(bfs.i, bfs.j) /\ ~Edge(bfs.i, bfs.j)

\* C34: compute_timespec_diff(start, stop) is the elapsed time in
\* nanoseconds, (stop.tv_sec - start.tv_sec) * 10^9 + (stop.tv_nsec -
\* start.tv_nsec), for start not after stop, also when start.tv_nsec is
\* the larger of the two
C34_DiffIsElapsedNanoseconds ==
  (bfs.pc = "returned" /\ NotAfter(bfs.start, bfs.stop))
    => bfs.nanoseconds = (bfs.stop.tv_sec - bfs.start.tv_sec) * NSEC_PER_SEC
                           + (bfs.stop.tv_nsec - bfs.start.tv_nsec)

\* C33: a destroy of an initialized allocator releases no block a second
\* time, and leaves no slab slot with the address of a block that has been
\* released
C33_NoDoubleReleaseNoStaleSlot ==
  [][(allocator.initialized /\ last'.op = "destroy")
       => /\ status' # "ub"
          /\ \A i \in SlabIndexes :
               allocator'.slabs[i].data # NULL
                 => allocator'.slabs[i].data \in blocks']_vars

\* what is allocated for the queue: the queue, its list header, the nodes
LiveObjects ==
  (IF queue.alloc THEN 1 ELSE 0) + (IF list.alloc THEN 1 ELSE 0)
    + Cardinality({a \in Addrs : nodes[a].live})

QueueOps == {"queue_create", "queue_push", "queue_pop", "queue_next",
             "queue_delete"}

\* C32: the queue's calls of the registered free function balance its
\* successful calls of the registered allocation function.  Call by call:
\* the successful allocations less the frees of a queue operation are what
\* it added to the queue's allocated objects (so an iterator allocated by
\* queue_next or queue_pop is released before the call returns), and after
\* queue_delete nothing is left allocated.
C32_QueueAllocationBalance ==
  [][(status' = "running" /\ last'.op \in QueueOps)
       => /\ LiveObjects' - LiveObjects = last'.mallocs - last'.frees
          /\ (last'.op = "queue_delete" /\ last'.ret) => LiveObjects' = 0]_vars

\* breadth_first_search is running
Searching == status = "running" /\ bfs.pc \in {"loop", "push", "finish"}

\* C31: breadth_first_search terminates on every graph, cycles and
\* self-loops included: a search pushes at most as many nodes as the graph
\* has edges (a row is expanded at most once per search), and a search that
\* has started returns (or the process has ended).
C31_SearchTerminates ==
  /\ [](Len(pushed) <= SizesUpTo(MatrixDim))
  /\ Searching ~> (bfs.pc = "returned" \/ status # "running")

\* a search on a cycle through its source that pushed a node for every
\* edge and ended by popping from the empty queue
C31_Witness ==
  /\ status = "running" /\ bfs.pc = "returned" /\ last.op = "queue_delete"
  /\ ~bfs.ret /\ ~bfs.oom
  /\ Reachable(bfs.i, bfs.i)
  /\ Len(pushed) = SizesUpTo(MatrixDim) /\ Len(pushed) >= 2

====
